---- MODULE Spec2Model ----
(***************************************************************************)
(* Query-based sampler of ProbLog (problog/sample.py): the per-round       *)
(* sample store SampledFormula and the drivers sample and estimate.        *)
(*                                                                         *)
(* Encodings.  Python floats are exact rationals <<num, den>> in lowest    *)
(* terms (den > 0).  A node is an integer: 0 is LogicFormula.TRUE, a       *)
(* positive k is the 1-based key of values[k], and Python's None (FALSE)   *)
(* is the integer None below.  The None stored in groups for a committed   *)
(* origin is NoneR.  A plain fact identifier is the 1-tuple <<i>>, a       *)
(* choice identifier is <<group, result, choice>>.  A rendered line is a   *)
(* sequence of tokens.                                                     *)
(***************************************************************************)
EXTENDS Integers, Sequences, FiniteSets, TLC

VARIABLES
    model,        \* the program handed to sample / estimate
    fn,           \* which driver runs: "sample" or "estimate"
    n,            \* the requested number of accepted rounds
    tuples,       \* sample's tuples flag
    kwdargs,      \* sample's keyword options, handed to toString
    pc,           \* position of the driver
    facts,        \* SampledFormula.facts
    groups,       \* SampledFormula.groups
    probability,  \* SampledFormula.probability
    values,       \* SampledFormula.values
    ret,          \* the last call into the store and what it returned
    evidence_ok,  \* the driver's local evidence_ok
    i,            \* sample's counter of accepted rounds
    counts,       \* estimate's counter of accepted rounds
    estimates,    \* estimate's defaultdict(float)
    todo,         \* (k, v) pairs estimate's loop over queries() still has to visit
    out,          \* the last value handed to the caller (yielded or returned)
    error,        \* the exception that left the driver, "" when none
    yielded,      \* history: number of worlds yielded so far
    rounds,       \* history: number of rounds started
    interrupted,  \* history: an interrupt was delivered to estimate
    okrounds,     \* history: number of rounds whose evidence was all non-None
    truerounds,   \* history: per query, rounds accepted with the query at node 0
    finalized,    \* history: computeProbability calls on the current store
    poisson       \* the frame of a running sample_poisson: l2, k, p and its draws

store == <<facts, groups, probability, values>>
driver == <<model, fn, n, tuples, kwdargs, pc, evidence_ok, i, counts,
            estimates, todo, out, error>>
history == <<yielded, rounds, interrupted, okrounds, truerounds, finalized>>
vars == <<store, ret, driver, history, poisson>>

(***************************************************************************)
(* Bounds of the exploration.                                              *)
(***************************************************************************)
MaxN == 2          \* largest n handed to a driver
MaxRounds == 2     \* rounds a driver may start in one behaviour
MaxOperands == 2   \* longest operand list handed to addAnd / addOr

(***************************************************************************)
(* Float arithmetic, exact.                                                *)
(***************************************************************************)
RECURSIVE GCD(_, _)
GCD(a, b) == IF b = 0 THEN a ELSE GCD(b, a % b)

Abs(a) == IF a < 0 THEN -a ELSE a

Rat(a, b) ==
    LET g == GCD(Abs(a), Abs(b))
        s == IF b < 0 THEN -1 ELSE 1
    IN  <<(s * a) \div g, (s * b) \div g>>

\* the element of a singleton; binding an operand through a singleton has it
\* evaluated once
Once(S) == CHOOSE z \in S : TRUE

\* the products are taken after cancelling common factors, so that they stay
\* within the integers of the checker
RMul(x, y) ==
    Once({Once({Rat((a[1] \div g1) * (b[1] \div g2), (a[2] \div g2) * (b[2] \div g1)) :
                g1 \in {GCD(Abs(a[1]), b[2])}, g2 \in {GCD(Abs(b[1]), a[2])}}) :
          a \in {x}, b \in {y}})

RSub(x, y) ==
    Once({Once({Rat(a[1] * (b[2] \div g) - b[1] * (a[2] \div g), (a[2] \div g) * b[2]) :
                g \in {GCD(a[2], b[2])}}) :
          a \in {x}, b \in {y}})

RDiv(x, y) ==
    Once({Once({Rat((a[1] \div g1) * (b[2] \div g2), (a[2] \div g2) * (b[1] \div g1)) :
                g1 \in {GCD(Abs(a[1]), Abs(b[1]))}, g2 \in {GCD(a[2], b[2])}}) :
          a \in {x}, b \in {y}})

\* a/b < c/d for b, d > 0, by comparing the integer parts and then the
\* reciprocals of the fractional parts
RECURSIVE Less(_, _, _, _)
Less(a, b, c, d) ==
    IF a \div b # c \div d THEN a \div b < c \div d
    ELSE IF c % d = 0 THEN FALSE
    ELSE IF a % b = 0 THEN TRUE
    ELSE \E ra \in {a % b}, rc \in {c % d} : Less(d, rc, b, ra)

RLt(x, y) == \E a \in {x}, b \in {y} : Less(a[1], a[2], b[1], b[2])
RLe(x, y) == \E a \in {x}, b \in {y} : ~Less(b[1], b[2], a[1], a[2])

None == -1
NoneR == <<0, 0>>
NodeTRUE == 0
NodeFALSE == None

\* the threshold 1e-8 of addAtom
EPS == <<1, 100000000>>

\* random.random(): the uniform draws in [0, 1) that are explored
Random == {<<0, 1>>, <<1, 4>>, <<3, 10>>, <<1, 2>>, <<19999, 20000>>}

\* the values a continuous sampler may return
Variates == {<<-3, 2>>, <<7, 1>>}

(***************************************************************************)
(* Probability terms and programs.                                         *)
(***************************************************************************)
NoProbability == [functor |-> "None", args |-> <<>>]
Float(a, b) == [functor |-> "float", args |-> <<Rat(a, b)>>]
Term(f, a) == [functor |-> f, args |-> a]

\* the programs; each lists its probabilistic atoms with their probability
\* term, and its queries and evidence, which are atoms of the program
Programs == [
    fact |-> [
        atoms |-> (<<1>> :> Float(2, 5)) @@ (<<2>> :> Float(1, 2)),
        names |-> (<<1>> :> "a") @@ (<<2>> :> "e"),
        ad |-> <<>>,
        queries |-> <<<<1>>>>,
        evidence |-> <<<<2>>>> ],
    never |-> [
        atoms |-> (<<1>> :> Float(2, 5)) @@ (<<2>> :> Float(0, 1)),
        names |-> (<<1>> :> "a") @@ (<<2>> :> "e"),
        ad |-> <<>>,
        queries |-> <<<<1>>>>,
        evidence |-> <<<<2>>>> ],
    always |-> [
        atoms |-> (<<1>> :> Float(2, 5)) @@ (<<2>> :> Float(1, 1)),
        names |-> (<<1>> :> "a") @@ (<<2>> :> "e"),
        ad |-> <<>>,
        queries |-> <<<<1>>>>,
        evidence |-> <<<<2>>>> ],
    choice |-> [
        atoms |-> (<<1, 0, 1>> :> Float(3, 10)) @@ (<<1, 0, 2>> :> Float(1, 5))
                  @@ (<<1, 1, 1>> :> Float(1, 2)),
        names |-> (<<1, 0, 1>> :> "c1") @@ (<<1, 0, 2>> :> "c2") @@ (<<1, 1, 1>> :> "d1"),
        ad |-> (<<1, 0, 1>> :> "ad_1_1(0)") @@ (<<1, 0, 2>> :> "ad_1_2(0)")
               @@ (<<1, 1, 1>> :> "ad_1_1(1)"),
        queries |-> <<<<1, 0, 1>>, <<1, 0, 2>>>>,
        evidence |-> <<>> ],
    valued |-> [
        atoms |-> (<<1>> :> Float(1, 1)) @@ (<<3>> :> Term("constant", <<<<5, 1>>>>))
                  @@ (<<4>> :> Term("normal", <<<<0, 1>>, <<1, 1>>>>))
                  @@ (<<5>> :> Term("foo", <<<<1, 1>>>>))
                  @@ (<<6>> :> NoProbability)
                  @@ (<<2, 0, 1>> :> Term("bar", <<<<1, 1>>>>)),
        names |-> (<<1>> :> "a") @@ (<<3>> :> "x") @@ (<<4>> :> "y")
                  @@ (<<5>> :> "z") @@ (<<6>> :> "t") @@ (<<2, 0, 1>> :> "w"),
        ad |-> (<<2, 0, 1>> :> "ad_2_1(0)"),
        queries |-> <<<<1>>, <<3>>, <<4>>>>,
        evidence |-> <<>> ],
    \* one origin whose alternatives sum to 1.0 and leave masses around 1e-8
    exhaust |-> [
        atoms |-> (<<1, 0, 1>> :> Float(9999, 10000)) @@ (<<1, 0, 2>> :> Float(9999, 100000000))
                  @@ (<<1, 0, 3>> :> Float(1, 1000000000))
                  @@ (<<1, 0, 4>> :> Float(9, 1000000000)),
        names |-> (<<1, 0, 1>> :> "h1") @@ (<<1, 0, 2>> :> "h2") @@ (<<1, 0, 3>> :> "h3")
                  @@ (<<1, 0, 4>> :> "h4"),
        ad |-> (<<1, 0, 1>> :> "ad_1_1(0)") @@ (<<1, 0, 2>> :> "ad_1_2(0)")
               @@ (<<1, 0, 3>> :> "ad_1_3(0)") @@ (<<1, 0, 4>> :> "ad_1_4(0)"),
        queries |-> <<>>,
        evidence |-> <<>> ],
    \* probability 0.0 as a plain fact and as a choice alternative
    zero |-> [
        atoms |-> (<<1>> :> Float(0, 1)) @@ (<<2, 0, 1>> :> Float(0, 1))
                  @@ (<<2, 0, 2>> :> Float(1, 2)),
        names |-> (<<1>> :> "a") @@ (<<2, 0, 1>> :> "z1") @@ (<<2, 0, 2>> :> "z2"),
        ad |-> (<<2, 0, 1>> :> "ad_2_1(0)") @@ (<<2, 0, 2>> :> "ad_2_2(0)"),
        queries |-> <<>>,
        evidence |-> <<>> ],
    \* distributions as plain facts and as choice alternatives
    dists |-> [
        atoms |-> (<<1>> :> Term("exponential", <<<<1, 1>>>>))
                  @@ (<<2>> :> Term("poisson", <<<<2, 1>>>>))
                  @@ (<<3>> :> Term("uniform", <<<<1, 1>>, <<3, 1>>>>))
                  @@ (<<4, 0, 1>> :> Term("constant", <<<<5, 1>>>>))
                  @@ (<<4, 0, 2>> :> Float(1, 2)),
        names |-> (<<1>> :> "x") @@ (<<2>> :> "k") @@ (<<3>> :> "v")
                  @@ (<<4, 0, 1>> :> "c") @@ (<<4, 0, 2>> :> "b"),
        ad |-> (<<4, 0, 1>> :> "ad_4_1(0)") @@ (<<4, 0, 2>> :> "ad_4_2(0)"),
        queries |-> <<>>,
        evidence |-> <<>> ],
    shapes |-> [
        atoms |-> (<<1>> :> Term("beta", <<<<1, 1>>, <<1, 1>>>>))
                  @@ (<<2, 0, 1>> :> Term("gamma", <<<<1, 1>>, <<1, 1>>>>))
                  @@ (<<2, 0, 2>> :> Float(1, 4)),
        names |-> (<<1>> :> "s") @@ (<<2, 0, 1>> :> "g") @@ (<<2, 0, 2>> :> "b"),
        ad |-> (<<2, 0, 1>> :> "ad_2_1(0)") @@ (<<2, 0, 2>> :> "ad_2_2(0)"),
        queries |-> <<>>,
        evidence |-> <<>> ] ]

\* the programs handed to sample and estimate, and those whose atoms are put
\* to a SampledFormula by a caller of its own
Models == {"fact", "never", "always", "choice", "valued"}
StoreModels == {"exhaust", "zero", "dists", "shapes", "choice", "valued"}

Atoms(m) == DOMAIN Programs[m].atoms
Origin(identifier) == <<identifier[1], identifier[2]>>

Zero == <<0, 1>>
One == <<1, 1>>

\* what a call into the store reports: the node it returned (result), the
\* exception it raised (error, <<>> when none), whether it consumed a draw
\* of random.random(), the draw u itself and the conditional probability q
\* it drew against
Returned(op, identifier, content, node, drew, q) ==
    [op |-> op, identifier |-> identifier, content |-> content, result |-> node,
     drew |-> drew, q |-> q, u |-> NoneR, error |-> <<>>]

NoCall == Returned("", <<>>, <<>>, None, FALSE, NoneR)

Raised(op, identifier, content, exc) ==
    [op |-> op, identifier |-> identifier, content |-> content, result |-> None,
     drew |-> FALSE, q |-> NoneR, u |-> NoneR, error |-> exc]

(***************************************************************************)
(* Distribution sampler.                                                   *)
(***************************************************************************)
\* sample_poisson(l), the fallback used when numpy is missing, for l < 30.
\* math.exp(-l), to five digits
exp(x) ==
    CASE x = -1 -> Rat(36788, 100000)
      [] x = -2 -> Rat(13534, 100000)
      [] x = -3 -> Rat(4979, 100000)

\* the rates handed to sample_poisson, all below 30
Lambdas == {1, 2, 3}

\* random.random() inside sample_poisson: the uniform draws that are explored
PoissonRandom == {<<0, 1>>, <<1, 4>>, <<3, 10>>, <<1, 2>>, <<9, 10>>}

\* draws one run of sample_poisson may consume in the exploration
MaxDraws == 3

\* no sample_poisson is running
NoFrame == [pc |-> "idle", l |-> 0, l2 |-> NoneR, k |-> 0, p |-> NoneR,
            draws |-> <<>>, result |-> None]

\* the call, l < 30: l2 = exp(-l); k = 1; p = 1
PoissonCall ==
    /\ poisson.pc = "idle"
    /\ \E l \in Lambdas :
           /\ ~(l >= 30)
           /\ poisson' = [pc |-> "while", l |-> l, l2 |-> exp(-l), k |-> 1, p |-> One,
                          draws |-> <<>>, result |-> None]
    /\ UNCHANGED <<store, ret, driver, history>>

\* while p > l2: k += 1; p *= random.random()
PoissonWhile ==
    /\ poisson.pc = "while"
    /\ RLt(poisson.l2, poisson.p)
    /\ Len(poisson.draws) < MaxDraws
    /\ \E u \in PoissonRandom :
           poisson' = [poisson EXCEPT !.k = @ + 1, !.p = RMul(@, u),
                                      !.draws = Append(@, u)]
    /\ UNCHANGED <<store, ret, driver, history>>

\* return k - 1
PoissonReturn ==
    /\ poisson.pc = "while"
    /\ ~RLt(poisson.l2, poisson.p)
    /\ poisson' = [poisson EXCEPT !.pc = "returned", !.result = poisson.k - 1]
    /\ UNCHANGED <<store, ret, driver, history>>

\* the integers of [a, b) that random.randrange can return
RandRange(a, b) == {Rat(k, 1) : k \in a[1] .. (b[1] - 1)}

\* the outcomes of sample_value(term): a (value, prob) pair or an exception
sample_value(term) ==
    LET Drawn(S) == {[value |-> v, prob |-> Zero, error |-> <<>>] : v \in S}
        Fails(exc) == {[value |-> NoneR, prob |-> NoneR, error |-> exc]}
    IN  CASE term.functor = "normal" -> Drawn(Variates)
          [] term.functor = "poisson" ->
                \* sample_poisson is handed the result of map(), not a number:
                \* only numpy under Python 2 turns it into a sample
                Drawn({Rat(0, 1), Rat(2, 1)}) \cup Fails(<<"TypeError">>)
          [] term.functor = "exponential" ->
                \* a is the pair (map(...), 0.0), which expovariate divides by
                Fails(<<"TypeError">>)
          [] term.functor = "beta" -> Drawn({Rat(1, 4), Rat(3, 4)})
          [] term.functor = "gamma" -> Drawn({Rat(1, 4), Rat(7, 1)})
          [] term.functor = "uniform" ->
                IF term.args[1][2] = 1 /\ term.args[2][2] = 1
                   /\ RLt(term.args[1], term.args[2])
                THEN Drawn(RandRange(term.args[1], term.args[2]))
                ELSE Fails(<<"ValueError">>)
          [] term.functor = "constant" ->
                {[value |-> term.args[1], prob |-> One, error |-> <<>>]}
          [] OTHER -> Fails(<<"ValueError", "Unknown distribution: '%s'", term.functor>>)

(***************************************************************************)
(* SampledFormula.                                                         *)
(***************************************************************************)
\* SampledFormula.__init__
EmptyStore ==
    /\ facts' = <<>>
    /\ groups' = <<>>
    /\ probability' = One
    /\ values' = <<>>

_isSimpleProbability(term) == term.functor = "float"

float(term) == term.args[1]

\* getValue(key); NoneR stands for Python's None
getValue(vals, key) == IF key = 0 THEN NoneR ELSE vals[key]

\* the non-simple branch shared by plain facts and choices: sample_value,
\* probability *= prob, addValue, then the caching of the node
addAtomValue(identifier, term) ==
    \E s \in sample_value(term) :
        IF s.error # <<>>
        THEN /\ ret' = Raised("addAtom", identifier, <<>>, s.error)
             /\ UNCHANGED store
        ELSE /\ probability' = RMul(probability, s.prob)
             /\ values' = Append(values, s.value)
             /\ facts' = (identifier :> Len(values) + 1) @@ facts
             /\ ret' = Returned("addAtom", identifier, <<>>, Len(values) + 1,
                                term.functor # "constant", NoneR)
             /\ UNCHANGED groups

\* the simple-fact branch with a slip: a draw equal to prob counts as TRUE
addAtomFactInclusive(identifier, term) ==
    \E p \in Random :
        LET prob == float(term)
            value == RLe(p, prob)
            result_node == IF value THEN NodeTRUE ELSE NodeFALSE
        IN  /\ probability' = IF value THEN RMul(probability, prob)
                                       ELSE RMul(probability, RSub(One, prob))
            /\ facts' = (identifier :> result_node) @@ facts
            /\ ret' = [Returned("addAtom", identifier, <<>>, result_node, TRUE, NoneR)
                           EXCEPT !.u = p]
            /\ UNCHANGED <<groups, values>>

\* the simple-fact branch: one draw p, TRUE iff p < prob
addAtomFact(identifier, term) ==
    \E p \in Random :
        LET prob == float(term)
            value == RLt(p, prob)
            result_node == IF value THEN NodeTRUE ELSE NodeFALSE
        IN  /\ probability' = IF value THEN RMul(probability, prob)
                                       ELSE RMul(probability, RSub(One, prob))
            /\ facts' = (identifier :> result_node) @@ facts
            /\ ret' = [Returned("addAtom", identifier, <<>>, result_node, TRUE, NoneR)
                           EXCEPT !.u = p]
            /\ UNCHANGED <<groups, values>>

\* the choice branch with a slip: a TRUE draw adjusts the remaining mass like a
\* rejected one instead of committing the origin
addAtomChoiceNoCommit(identifier, term) ==
    LET origin == Origin(identifier)
        p == float(term)
        r == IF origin \in DOMAIN groups THEN groups[origin] ELSE One
        forced == r = NoneR \/ RLt(r, EPS)
        q == IF forced THEN Zero ELSE RDiv(p, r)
    IN  \E u \in (IF forced THEN {Zero} ELSE Random) :
            LET value == ~forced /\ RLe(u, q)
                result_node == IF value THEN NodeTRUE ELSE NodeFALSE
            IN  /\ probability' = IF value THEN RMul(probability, p) ELSE probability
                /\ groups' = IF r # NoneR THEN (origin :> RSub(r, p)) @@ groups ELSE groups
                /\ facts' = (identifier :> result_node) @@ facts
                /\ ret' = [Returned("addAtom", identifier, <<>>, result_node, ~forced, q)
                               EXCEPT !.u = IF forced THEN NoneR ELSE u]
                /\ UNCHANGED values

\* the choice branch with a slip: an alternative that comes out FALSE pays 1 - p
\* like a plain fact
addAtomChoiceCharged(identifier, term) ==
    LET origin == Origin(identifier)
        p == float(term)
        r == IF origin \in DOMAIN groups THEN groups[origin] ELSE One
        forced == r = NoneR \/ RLt(r, EPS)
        q == IF forced THEN Zero ELSE RDiv(p, r)
    IN  \E u \in (IF forced THEN {Zero} ELSE Random) :
            LET value == ~forced /\ RLe(u, q)
                result_node == IF value THEN NodeTRUE ELSE NodeFALSE
            IN  /\ probability' = IF value THEN RMul(probability, p)
                                           ELSE RMul(probability, RSub(One, p))
                /\ groups' = IF value THEN (origin :> NoneR) @@ groups
                             ELSE IF r # NoneR THEN (origin :> RSub(r, p)) @@ groups
                             ELSE groups
                /\ facts' = (identifier :> result_node) @@ facts
                /\ ret' = [Returned("addAtom", identifier, <<>>, result_node, ~forced, q)
                               EXCEPT !.u = IF forced THEN NoneR ELSE u]
                /\ UNCHANGED values

\* the choice branch with a slip: the draw is against p, not against p / r
addAtomChoiceUnscaled(identifier, term) ==
    LET origin == Origin(identifier)
        p == float(term)
        r == IF origin \in DOMAIN groups THEN groups[origin] ELSE One
        forced == r = NoneR \/ RLt(r, EPS)
        q == IF forced THEN Zero ELSE p
    IN  \E u \in (IF forced THEN {Zero} ELSE Random) :
            LET value == ~forced /\ RLe(u, q)
                result_node == IF value THEN NodeTRUE ELSE NodeFALSE
            IN  /\ probability' = IF value THEN RMul(probability, p) ELSE probability
                /\ groups' = IF value THEN (origin :> NoneR) @@ groups
                             ELSE IF r # NoneR THEN (origin :> RSub(r, p)) @@ groups
                             ELSE groups
                /\ facts' = (identifier :> result_node) @@ facts
                /\ ret' = [Returned("addAtom", identifier, <<>>, result_node, ~forced, q)
                               EXCEPT !.u = IF forced THEN NoneR ELSE u]
                /\ UNCHANGED values

\* the choice branch with a slip: a remaining mass of exactly 1e-8 counts as
\* exhausted
addAtomChoiceInclusive(identifier, term) ==
    LET origin == Origin(identifier)
        p == float(term)
        r == IF origin \in DOMAIN groups THEN groups[origin] ELSE One
        forced == r = NoneR \/ RLe(r, EPS)
        q == IF forced THEN Zero ELSE RDiv(p, r)
    IN  \E u \in (IF forced THEN {Zero} ELSE Random) :
            LET value == ~forced /\ RLe(u, q)
                result_node == IF value THEN NodeTRUE ELSE NodeFALSE
            IN  /\ probability' = IF value THEN RMul(probability, p) ELSE probability
                /\ groups' = IF value THEN (origin :> NoneR) @@ groups
                             ELSE IF r # NoneR THEN (origin :> RSub(r, p)) @@ groups
                             ELSE groups
                /\ facts' = (identifier :> result_node) @@ facts
                /\ ret' = [Returned("addAtom", identifier, <<>>, result_node, ~forced, q)
                               EXCEPT !.u = IF forced THEN NoneR ELSE u]
                /\ UNCHANGED values

\* the choice branch with a slip: a rejected alternative takes the conditional
\* probability q off the remaining mass instead of p
addAtomChoiceSubtractsQ(identifier, term) ==
    LET origin == Origin(identifier)
        p == float(term)
        r == IF origin \in DOMAIN groups THEN groups[origin] ELSE One
        forced == r = NoneR \/ RLt(r, EPS)
        q == IF forced THEN Zero ELSE RDiv(p, r)
    IN  \E u \in (IF forced THEN {Zero} ELSE Random) :
            LET value == ~forced /\ RLe(u, q)
                result_node == IF value THEN NodeTRUE ELSE NodeFALSE
            IN  /\ probability' = IF value THEN RMul(probability, p) ELSE probability
                /\ groups' = IF value THEN (origin :> NoneR) @@ groups
                             ELSE IF r # NoneR THEN (origin :> RSub(r, q)) @@ groups
                             ELSE groups
                /\ facts' = (identifier :> result_node) @@ facts
                /\ ret' = [Returned("addAtom", identifier, <<>>, result_node, ~forced, q)
                               EXCEPT !.u = IF forced THEN NoneR ELSE u]
                /\ UNCHANGED values

\* the choice branch with a slip: a TRUE alternative pays the conditional
\* probability q it was drawn against instead of p
addAtomChoiceConditional(identifier, term) ==
    LET origin == Origin(identifier)
        p == float(term)
        r == IF origin \in DOMAIN groups THEN groups[origin] ELSE One
        forced == r = NoneR \/ RLt(r, EPS)
        q == IF forced THEN Zero ELSE RDiv(p, r)
    IN  \E u \in (IF forced THEN {Zero} ELSE Random) :
            LET value == ~forced /\ RLe(u, q)
                result_node == IF value THEN NodeTRUE ELSE NodeFALSE
            IN  /\ probability' = IF value THEN RMul(probability, q) ELSE probability
                /\ groups' = IF value THEN (origin :> NoneR) @@ groups
                             ELSE IF r # NoneR THEN (origin :> RSub(r, p)) @@ groups
                             ELSE groups
                /\ facts' = (identifier :> result_node) @@ facts
                /\ ret' = [Returned("addAtom", identifier, <<>>, result_node, ~forced, q)
                               EXCEPT !.u = IF forced THEN NoneR ELSE u]
                /\ UNCHANGED values

\* the choice branch: renormalised draw against the remaining mass r
addAtomChoice(identifier, term) ==
    LET origin == Origin(identifier)
        p == float(term)
        r == IF origin \in DOMAIN groups THEN groups[origin] ELSE One
        forced == r = NoneR \/ RLt(r, EPS)
        q == IF forced THEN Zero ELSE RDiv(p, r)
    IN  \E u \in (IF forced THEN {Zero} ELSE Random) :
            LET value == ~forced /\ RLe(u, q)
                result_node == IF value THEN NodeTRUE ELSE NodeFALSE
            IN  /\ probability' = IF value THEN RMul(probability, p) ELSE probability
                /\ groups' = IF value THEN (origin :> NoneR) @@ groups
                             ELSE IF r # NoneR THEN (origin :> RSub(r, p)) @@ groups
                             ELSE groups
                /\ facts' = (identifier :> result_node) @@ facts
                /\ ret' = [Returned("addAtom", identifier, <<>>, result_node, ~forced, q)
                               EXCEPT !.u = IF forced THEN NoneR ELSE u]
                /\ UNCHANGED values

\* addAtom with the lookup in facts left out: every call resolves afresh
addAtomUncached(identifier, term, group) ==
    IF term = NoProbability
    THEN /\ ret' = Returned("addAtom", identifier, <<>>, 0, FALSE, NoneR)
         /\ UNCHANGED store
    ELSE IF ~_isSimpleProbability(term) THEN addAtomValue(identifier, term)
    ELSE IF group = None THEN addAtomFact(identifier, term)
    ELSE addAtomChoice(identifier, term)

\* addAtom(identifier, probability, group); group is None for a plain fact
addAtom(identifier, term, group) ==
    IF term = NoProbability
    THEN /\ ret' = Returned("addAtom", identifier, <<>>, 0, FALSE, NoneR)
         /\ UNCHANGED store
    ELSE IF group = None
    THEN IF identifier \notin DOMAIN facts
         THEN IF _isSimpleProbability(term)
              THEN addAtomFact(identifier, term)
              ELSE addAtomValue(identifier, term)
         ELSE /\ ret' = Returned("addAtom", identifier, <<>>, facts[identifier], FALSE, NoneR)
              /\ UNCHANGED store
    ELSE IF identifier \notin DOMAIN facts
         THEN IF _isSimpleProbability(term)
              THEN addAtomChoice(identifier, term)
              ELSE addAtomValue(identifier, term)
         ELSE /\ ret' = Returned("addAtom", identifier, <<>>, facts[identifier], FALSE, NoneR)
              /\ UNCHANGED store

\* computeProbability(): the leftover mass of every uncommitted origin
RECURSIVE Leftover(_, _)
Leftover(g, ks) ==
    IF ks = {} THEN One
    ELSE LET k == CHOOSE x \in ks : TRUE
         IN  RMul(IF g[k] # NoneR THEN g[k] ELSE One, Leftover(g, ks \ {k}))

\* computeProbability with a slip: groups is not cleared afterwards
computeProbabilityKeepsGroups ==
    /\ probability' = RMul(probability, Leftover(groups, DOMAIN groups))
    /\ groups' = groups

computeProbability ==
    /\ probability' = RMul(probability, Leftover(groups, DOMAIN groups))
    /\ groups' = <<>>

\* the nodes the grounder can hand to a combinator
Nodes == {None, 0} \cup (1 .. Len(values))

Contents == UNION {[1 .. k -> Nodes] : k \in 0 .. MaxOperands}

\* the scan of addAnd / addOr: the number of operands that are live
RECURSIVE Live(_)
Live(content) ==
    IF content = <<>> THEN 0
    ELSE (IF Head(content) # None /\ Head(content) # 0 THEN 1 ELSE 0) + Live(Tail(content))

\* LogicFormula.addAnd / addOr, the combinators both methods delegate to
LogicFormulaAnd(content) ==
    IF \E k \in DOMAIN content : content[k] = None THEN None
    ELSE IF \E k \in DOMAIN content : content[k] # 0
    THEN content[CHOOSE k \in DOMAIN content : content[k] # 0]
    ELSE 0

LogicFormulaOr(content) ==
    IF \E k \in DOMAIN content : content[k] = 0 THEN 0
    ELSE IF \E k \in DOMAIN content : content[k] # None
    THEN content[CHOOSE k \in DOMAIN content : content[k] # None]
    ELSE None

\* addAnd with a slip: the scan counts every operand that is not None
addAndCountsTrue(content) ==
    /\ ret' = IF Cardinality({k \in DOMAIN content : content[k] # None}) > 1
              THEN Raised("addAnd", <<>>, content,
                          <<"ValueError", "Can't combine sampled predicates. Use sample/2 to extract sample.">>)
              ELSE Returned("addAnd", <<>>, content, LogicFormulaAnd(content), FALSE, NoneR)
    /\ UNCHANGED store

addAnd(content) ==
    /\ ret' = IF Live(content) > 1
              THEN Raised("addAnd", <<>>, content,
                          <<"ValueError", "Can't combine sampled predicates. Use sample/2 to extract sample.">>)
              ELSE Returned("addAnd", <<>>, content, LogicFormulaAnd(content), FALSE, NoneR)
    /\ UNCHANGED store

addOr(content) ==
    /\ ret' = IF Live(content) > 1
              THEN Raised("addOr", <<>>, content,
                          <<"ValueError", "Can't combine sampled predicates. Make sure bodies are mutually exclusive.">>)
              ELSE Returned("addOr", <<>>, content, LogicFormulaOr(content), FALSE, NoneR)
    /\ UNCHANGED store

(***************************************************************************)
(* Serialisation.                                                          *)
(***************************************************************************)
\* base % arg: the tokens of arg in place of the %s of base
Format(base, arg) ==
    LET k == CHOOSE j \in DOMAIN base : base[j] = "%s"
    IN  SubSeq(base, 1, k - 1) \o arg \o SubSeq(base, k + 1, Len(base))

\* str(translate(db, atom_id)): the printed term of a fact of the store
translate(m, atom_id) ==
    IF Len(atom_id) = 3 THEN Programs[m].ad[atom_id] ELSE Programs[m].names[atom_id]

\* queries() and evidence() of the grounded formula: (name, node) pairs
RECURSIVE Named(_, _, _)
Named(m, ids, f) ==
    IF ids = <<>> THEN <<>>
    ELSE <<<<Programs[m].names[Head(ids)], f[Head(ids)]>>>> \o Named(m, Tail(ids), f)

queries(m, f) == Named(m, Programs[m].queries, f)
evidence(m, f) == Named(m, Programs[m].evidence, f)

\* the lines toString appends for the queries, in order
RECURSIVE QueryLines(_, _, _, _)
QueryLines(qs, vals, base, as_evidence) ==
    IF qs = <<>> THEN <<>>
    ELSE LET k == Head(qs)[1]
             v == Head(qs)[2]
             val == getValue(vals, v)
             line == IF v # None
                     THEN IF val = NoneR THEN <<Format(base, <<k>>)>>
                          ELSE IF ~as_evidence THEN <<<<k, " = ", val, ".">>>>
                          ELSE <<>>
                     ELSE IF as_evidence THEN <<Format(base, <<"\\+", k>>)>>
                     ELSE <<>>
         IN  line \o QueryLines(Tail(qs), vals, base, as_evidence)

\* the lines toString appends for the facts when with_facts is set
FactLines(m, f, base) ==
    {Format(base, <<translate(m, k)>>) : k \in {j \in DOMAIN f : f[j] = 0}}
    \cup {Format(base, <<"\\+", translate(m, k)>>) : k \in {j \in DOMAIN f : f[j] = None}}

Range(s) == {s[k] : k \in DOMAIN s}

\* list(set(lines)): the distinct lines in any order
RECURSIVE Orders(_)
Orders(S) ==
    IF S = {} THEN {<<>>}
    ELSE UNION {{<<x>> \o o : o \in Orders(S \ {x})} : x \in S}

NoOut == [kind |-> "none", sep |-> "", lines |-> <<>>, estimates |-> <<>>]

\* toString with a slip: the lines are not passed through set()
toStringKeepsDuplicates(m, kw) ==
    /\ computeProbability
    /\ LET base == IF kw.as_evidence THEN <<"evidence(", "%s", ").">> ELSE <<"%s", ".">>
           lines == QueryLines(queries(m, facts), values, base, kw.as_evidence)
           sep == IF kw.oneline THEN " " ELSE "\n"
       IN  \E o \in Orders(IF kw.with_facts THEN FactLines(m, facts, base) ELSE {}) :
               out' = [kind |-> "string", sep |-> sep, estimates |-> <<>>,
                       lines |-> IF kw.with_probability
                                 THEN Append(lines \o o, <<"% Probability: ", probability'>>)
                                 ELSE lines \o o]
    /\ UNCHANGED <<facts, values>>

\* toString(db, with_facts, with_probability, oneline, as_evidence), out' its result
toString(m, kw) ==
    /\ computeProbability
    /\ LET base == IF kw.as_evidence THEN <<"evidence(", "%s", ").">> ELSE <<"%s", ".">>
           lines == Range(QueryLines(queries(m, facts), values, base, kw.as_evidence))
                    \cup (IF kw.with_facts THEN FactLines(m, facts, base) ELSE {})
           sep == IF kw.oneline THEN " " ELSE "\n"
       IN  \E o \in Orders(lines) :
               out' = [kind |-> "string", sep |-> sep, estimates |-> <<>>,
                       lines |-> IF kw.with_probability
                                 THEN Append(o, <<"% Probability: ", probability'>>)
                                 ELSE o]
    /\ UNCHANGED <<facts, values>>

\* the records toTuples builds for the queries, in order
RECURSIVE QueryTuples(_, _)
QueryTuples(qs, vals) ==
    IF qs = <<>> THEN <<>>
    ELSE LET k == Head(qs)[1]
             v == Head(qs)[2]
         IN  (IF v # None THEN <<<<k, getValue(vals, v)>>>> ELSE <<>>)
             \o QueryTuples(Tail(qs), vals)

\* toTuples(), out' its result
toTuples(m) ==
    /\ \E o \in Orders(Range(QueryTuples(queries(m, facts), values))) :
           out' = [kind |-> "tuples", sep |-> "", estimates |-> <<>>, lines |-> o]
    /\ UNCHANGED store

(***************************************************************************)
(* The drivers.  ground_all is the grounder's sequence of calls into the   *)
(* fresh store; it returns once every query and evidence atom is resolved. *)
(***************************************************************************)
KwdArgs(f, p, o, e) ==
    [with_facts |-> f, with_probability |-> p, oneline |-> o, as_evidence |-> e]

NoKwdArgs == KwdArgs(FALSE, FALSE, FALSE, FALSE)

\* the option sets explored for sample
Options ==
    {NoKwdArgs, KwdArgs(FALSE, FALSE, FALSE, TRUE), KwdArgs(TRUE, TRUE, FALSE, FALSE),
     KwdArgs(FALSE, TRUE, TRUE, FALSE), KwdArgs(TRUE, TRUE, TRUE, TRUE)}

Init ==
    /\ model \in Models
    /\ fn \in {"sample", "estimate"}
    /\ n \in 0 .. MaxN
    /\ tuples \in IF fn = "sample" THEN BOOLEAN ELSE {FALSE}
    /\ kwdargs \in IF fn = "sample" /\ ~tuples THEN Options ELSE {NoKwdArgs}
    /\ pc = "while"
    /\ facts = <<>>
    /\ groups = <<>>
    /\ probability = One
    /\ values = <<>>
    /\ ret = NoCall
    /\ evidence_ok = TRUE
    /\ i = 0
    /\ counts = 0
    /\ estimates = <<>>
    /\ todo = <<>>
    /\ out = NoOut
    /\ error = <<>>
    /\ yielded = 0
    /\ rounds = 0
    /\ interrupted = ""
    /\ okrounds = 0
    /\ truerounds = <<>>
    /\ finalized = 0
    /\ poisson = NoFrame

\* result = engine.ground_all(db, target=SampledFormula()): the call starts
ground_all ==
    /\ rounds < MaxRounds
    /\ rounds' = rounds + 1
    /\ EmptyStore
    /\ ret' = NoCall
    /\ finalized' = 0
    /\ pc' = "ground"

\* an exception of the store swallowed by the grounder, which carries on
PropagateSwallowed ==
    /\ pc' = pc
    /\ error' = ret'.error

\* an exception of the store leaves ground_all and the driver
Propagate ==
    /\ pc' = IF ret'.error # <<>> THEN "raised" ELSE pc
    /\ error' = ret'.error

GroundAtom ==
    /\ pc = "ground"
    /\ \E identifier \in Atoms(model) :
           addAtom(identifier, Programs[model].atoms[identifier],
                   IF Len(identifier) = 3 THEN identifier[1] ELSE None)
    /\ Propagate
    /\ UNCHANGED <<poisson, model, fn, n, tuples, kwdargs, evidence_ok, i, counts, estimates,
                   todo, out, history>>

GroundAnd ==
    /\ pc = "ground"
    /\ \E content \in Contents : addAnd(content)
    /\ Propagate
    /\ UNCHANGED <<poisson, model, fn, n, tuples, kwdargs, evidence_ok, i, counts, estimates,
                   todo, out, history>>

GroundOr ==
    /\ pc = "ground"
    /\ \E content \in Contents : addOr(content)
    /\ Propagate
    /\ UNCHANGED <<poisson, model, fn, n, tuples, kwdargs, evidence_ok, i, counts, estimates,
                   todo, out, history>>

\* ground_all returns the finished store
GroundEnd ==
    /\ pc = "ground"
    /\ Range(Programs[model].queries) \cup Range(Programs[model].evidence) \subseteq DOMAIN facts
    /\ pc' = "evidence"
    /\ ret' = NoCall
    /\ evidence_ok' = TRUE
    /\ UNCHANGED <<store, poisson, model, fn, n, tuples, kwdargs, i, counts, estimates, todo, out,
                   error, history>>

\* the evidence loop with a slip: an absent node does not clear evidence_ok
EvidenceOkAlways == TRUE

\* the loop over result.evidence()
EvidenceOk == \A k \in DOMAIN evidence(model, facts) : evidence(model, facts)[k][2] # None

\* the rounds in which each query sat at node 0, one accepted round more
TrueRounds(qs) ==
    [k \in DOMAIN truerounds \cup {qs[j][1] : j \in DOMAIN qs} |->
        (IF k \in DOMAIN truerounds THEN truerounds[k] ELSE 0)
        + (IF \E j \in DOMAIN qs : qs[j] = <<k, 0>> THEN 1 ELSE 0)]

(* sample *)
SampleWhile ==
    /\ fn = "sample" /\ pc = "while"
    /\ IF i < n
       THEN /\ ground_all
            /\ UNCHANGED <<yielded, interrupted, okrounds, truerounds>>
       ELSE /\ pc' = "done"
            /\ UNCHANGED <<store, ret, history>>
    /\ UNCHANGED <<poisson, model, fn, n, tuples, kwdargs, evidence_ok, i, counts, estimates,
                   todo, out, error>>

\* sample's evidence check with a slip: i is advanced by a rejected round too
SampleEvidenceCounted ==
    /\ fn = "sample" /\ pc = "evidence"
    /\ evidence_ok' = EvidenceOk
    /\ IF EvidenceOk
       THEN /\ IF tuples
               THEN toTuples(model) /\ UNCHANGED finalized
               ELSE toString(model, kwdargs) /\ finalized' = finalized + 1
            /\ pc' = "yield"
            /\ yielded' = yielded + 1
            /\ okrounds' = okrounds + 1
            /\ i' = i
       ELSE /\ pc' = "while"
            /\ i' = i + 1
            /\ UNCHANGED <<store, out, yielded, okrounds, finalized>>
    /\ UNCHANGED <<ret, poisson, model, fn, n, tuples, kwdargs, counts, estimates, todo, error,
                   rounds, interrupted, truerounds>>

SampleEvidence ==
    /\ fn = "sample" /\ pc = "evidence"
    /\ evidence_ok' = EvidenceOk
    /\ IF EvidenceOk
       THEN /\ IF tuples
               THEN toTuples(model) /\ UNCHANGED finalized
               ELSE toString(model, kwdargs) /\ finalized' = finalized + 1
            /\ pc' = "yield"
            /\ yielded' = yielded + 1
            /\ okrounds' = okrounds + 1
       ELSE /\ pc' = "while"
            /\ UNCHANGED <<store, out, yielded, okrounds, finalized>>
    /\ UNCHANGED <<ret, poisson, model, fn, n, tuples, kwdargs, i, counts, estimates, todo, error,
                   rounds, interrupted, truerounds>>

\* the caller asks for the next world: the generator resumes after its yield
SampleResume ==
    /\ fn = "sample" /\ pc = "yield"
    /\ i' = i + 1
    /\ out' = NoOut
    /\ pc' = "while"
    /\ UNCHANGED <<store, ret, poisson, model, fn, n, tuples, kwdargs, evidence_ok, counts,
                   estimates, todo, error, history>>

(* estimate *)
EstimateWhile ==
    /\ fn = "estimate" /\ pc = "while"
    /\ IF n = 0 \/ counts < n
       THEN /\ ground_all
            /\ UNCHANGED <<yielded, interrupted, okrounds, truerounds>>
       ELSE /\ pc' = "print"
            /\ UNCHANGED <<store, ret, history>>
    /\ UNCHANGED <<poisson, model, fn, n, tuples, kwdargs, evidence_ok, i, counts, estimates,
                   todo, out, error>>

EstimateEvidence ==
    /\ fn = "estimate" /\ pc = "evidence"
    /\ evidence_ok' = EvidenceOk
    /\ IF EvidenceOk
       THEN /\ todo' = queries(model, facts)
            /\ pc' = "queries"
            /\ okrounds' = okrounds + 1
            /\ truerounds' = TrueRounds(queries(model, facts))
       ELSE /\ pc' = "while"
            /\ UNCHANGED <<todo, okrounds, truerounds>>
    /\ UNCHANGED <<store, ret, poisson, model, fn, n, tuples, kwdargs, i, counts, estimates, out,
                   error, yielded, rounds, interrupted, finalized>>

\* the loop over queries() with a slip: every node that is not None is counted
EstimateQueryAnyNode ==
    /\ fn = "estimate" /\ pc = "queries"
    /\ todo # <<>>
    /\ LET k == Head(todo)[1]
           v == Head(todo)[2]
       IN  estimates' = IF v # None
                        THEN (k :> RSub(IF k \in DOMAIN estimates THEN estimates[k] ELSE Zero, Rat(-1, 1)))
                             @@ estimates
                        ELSE estimates
    /\ todo' = Tail(todo)
    /\ UNCHANGED <<store, ret, poisson, model, fn, n, tuples, kwdargs, pc, evidence_ok, i, counts,
                   out, error, history>>

\* one iteration of the loop over result.queries()
EstimateQuery ==
    /\ fn = "estimate" /\ pc = "queries"
    /\ todo # <<>>
    /\ LET k == Head(todo)[1]
           v == Head(todo)[2]
       IN  estimates' = IF v = 0
                        THEN (k :> RSub(IF k \in DOMAIN estimates THEN estimates[k] ELSE Zero, Rat(-1, 1)))
                             @@ estimates
                        ELSE estimates
    /\ todo' = Tail(todo)
    /\ UNCHANGED <<store, ret, poisson, model, fn, n, tuples, kwdargs, pc, evidence_ok, i, counts,
                   out, error, history>>

\* counts += 1.0
EstimateCount ==
    /\ fn = "estimate" /\ pc = "queries"
    /\ todo = <<>>
    /\ counts' = counts + 1
    /\ pc' = "while"
    /\ UNCHANGED <<store, ret, poisson, model, fn, n, tuples, kwdargs, evidence_ok, i, estimates,
                   todo, out, error, history>>

\* KeyboardInterrupt or SystemExit raised anywhere inside the try block
Interrupt ==
    /\ fn = "estimate" /\ pc \in {"while", "ground", "evidence", "queries"}
    /\ \E exc \in {"KeyboardInterrupt", "SystemExit"} : interrupted' = exc
    /\ pc' = "print"
    /\ UNCHANGED <<store, ret, poisson, model, fn, n, tuples, kwdargs, evidence_ok, i, counts,
                   estimates, todo, out, error, yielded, rounds, okrounds, truerounds,
                   finalized>>

\* the print, then estimates[k] = estimates[k] / counts for every k, then return
EstimateReturn ==
    /\ fn = "estimate" /\ pc = "print"
    /\ IF DOMAIN estimates # {} /\ counts = 0
       THEN /\ pc' = "raised"
            /\ error' = <<"ZeroDivisionError">>
            /\ UNCHANGED <<estimates, out>>
       ELSE /\ estimates' = [k \in DOMAIN estimates |-> RDiv(estimates[k], Rat(counts, 1))]
            /\ out' = [kind |-> "estimates", sep |-> "", lines |-> <<>>,
                       estimates |-> estimates']
            /\ pc' = "returned"
            /\ UNCHANGED error
    /\ UNCHANGED <<store, ret, poisson, model, fn, n, tuples, kwdargs, evidence_ok, i, counts, todo,
                   history>>

Next ==
    \/ GroundAtom
    \/ GroundAnd
    \/ GroundOr
    \/ GroundEnd
    \/ SampleWhile
    \/ SampleEvidence
    \/ SampleResume
    \/ EstimateWhile
    \/ EstimateEvidence
    \/ EstimateQuery
    \/ EstimateCount
    \/ Interrupt
    \/ EstimateReturn

Spec == Init /\ [][Next]_vars

(***************************************************************************)
(* A caller of its own: it puts atoms to one SampledFormula, then calls    *)
(* computeProbability.  And sample_poisson on its own.                     *)
(***************************************************************************)
\* computeProbability calls one store receives in the exploration
MaxFinalize == 2

\* no driver runs
Standalone(f) ==
    /\ fn = f
    /\ n = 0
    /\ tuples = FALSE
    /\ kwdargs = NoKwdArgs
    /\ facts = <<>>
    /\ groups = <<>>
    /\ probability = One
    /\ values = <<>>
    /\ ret = NoCall
    /\ evidence_ok = TRUE
    /\ i = 0
    /\ counts = 0
    /\ estimates = <<>>
    /\ todo = <<>>
    /\ out = NoOut
    /\ error = <<>>
    /\ yielded = 0
    /\ interrupted = ""
    /\ okrounds = 0
    /\ truerounds = <<>>
    /\ finalized = 0
    /\ poisson = NoFrame

\* SampledFormula(): a fresh store, which addAtom calls will fill
StoreInit ==
    /\ model \in StoreModels
    /\ Standalone("SampledFormula")
    /\ rounds = 1
    /\ pc = "ground"

\* computeProbability(), called once the atoms are in, and possibly again;
\* ret.q reports the factor the call multiplied into probability
CallComputeProbability ==
    /\ fn = "SampledFormula" /\ pc \in {"ground", "finalized"}
    /\ finalized < MaxFinalize
    /\ computeProbability
    /\ ret' = Returned("computeProbability", <<>>, <<>>, None, FALSE,
                       Leftover(groups, DOMAIN groups))
    /\ finalized' = finalized + 1
    /\ pc' = "finalized"
    /\ UNCHANGED <<facts, values, poisson, model, fn, n, tuples, kwdargs, evidence_ok, i,
                   counts, estimates, todo, out, error, yielded, rounds, interrupted,
                   okrounds, truerounds>>

StoreNext ==
    \/ GroundAtom
    \/ CallComputeProbability

StoreSpec == StoreInit /\ [][StoreNext]_vars

PoissonInit ==
    /\ model = "fact"
    /\ Standalone("sample_poisson")
    /\ rounds = 0
    /\ pc = "done"

PoissonNext ==
    \/ PoissonCall
    \/ PoissonWhile
    \/ PoissonReturn

PoissonSpec == PoissonInit /\ [][PoissonNext]_vars

\* the positions a driver can be at
TypeOK == pc \in {"while", "ground", "evidence", "yield", "queries", "print", "done",
                  "returned", "raised", "finalized"}

(***************************************************************************)
(* Properties of the sample store.                                         *)
(***************************************************************************)
\* a step in which the grounder called addAtom
AddAtomCall == pc = "ground" /\ pc' \in {"ground", "raised"} /\ ret'.op = "addAtom"

\* a step in which the grounder called addAnd or addOr
CombinatorCall == pc = "ground" /\ pc' \in {"ground", "raised"} /\ ret'.op \in {"addAnd", "addOr"}

IsChoice(identifier) == Len(identifier) = 3
IsBoolean(identifier) == Programs[model].atoms[identifier].functor = "float"
P(identifier) == Programs[model].atoms[identifier].args[1]

\* the Boolean alternatives of an origin that sit in f with the given node
Alternatives(f, origin, node) ==
    {a \in DOMAIN f : IsChoice(a) /\ Origin(a) = origin /\ IsBoolean(a) /\ f[a] = node}

Origins == {Origin(a) : a \in {b \in Atoms(model) : IsChoice(b)}}

\* C1: within a round the first addAtom for an identity caches the node it
\* returns, no later addAtom changes a cached node, and a later addAtom for a
\* cached identity returns the cached node, consumes no random draw and leaves
\* probability, groups and values (and facts) as they were.
Memoization ==
    [][AddAtomCall =>
        /\ \A a \in DOMAIN facts : a \in DOMAIN facts' /\ facts'[a] = facts[a]
        /\ ret'.identifier \in DOMAIN facts =>
              /\ ret'.result = facts[ret'.identifier]
              /\ ret'.error = <<>>
              /\ ~ret'.drew
              /\ UNCHANGED <<facts, groups, probability, values>>
        /\ (ret'.identifier \notin DOMAIN facts /\ ret'.identifier \in DOMAIN facts') =>
              facts'[ret'.identifier] = ret'.result]_vars

\* C1 witness: the plain fact a was resolved TRUE, the fact e was resolved,
\* and a second addAtom for a has just returned the cached TRUE without a draw
MemoizationWitness ==
    /\ model = "fact" /\ pc = "ground"
    /\ ret.op = "addAtom" /\ ret.identifier = <<1>> /\ ~ret.drew /\ ret.result = 0
    /\ DOMAIN facts = {<<1>>, <<2>>}
    /\ probability # One

\* C2: before finalization, at most one Boolean alternative of every origin is
\* cached in facts as TRUE (node 0).
Exclusivity ==
    finalized = 0 => \A origin \in Origins : Cardinality(Alternatives(facts, origin, 0)) <= 1

\* C2 witness: c1 is TRUE and c2, of the same origin, was resolved by a later
\* call, which came out FALSE
ExclusivityWitness ==
    /\ model = "choice" /\ pc = "ground" /\ finalized = 0
    /\ <<1, 0, 1>> \in DOMAIN facts /\ facts[<<1, 0, 1>>] = 0
    /\ ret.op = "addAtom" /\ ret.identifier = <<1, 0, 2>> /\ ret.result = None
    /\ <<1, 0, 2>> \in DOMAIN facts

\* C3: once a Boolean alternative of an origin is TRUE, addAtom for another,
\* unresolved Boolean alternative of that origin (before finalization) returns
\* FALSE (None), leaves probability unchanged and leaves groups[origin] at None.
MassExhaustion ==
    [][(/\ AddAtomCall
        /\ finalized = 0
        /\ IsChoice(ret'.identifier) /\ IsBoolean(ret'.identifier)
        /\ ret'.identifier \notin DOMAIN facts
        /\ Alternatives(facts, Origin(ret'.identifier), 0) # {})
       => /\ ret'.result = None /\ ret'.error = <<>>
          /\ facts' = (ret'.identifier :> None) @@ facts
          /\ probability' = probability
          /\ Origin(ret'.identifier) \in DOMAIN groups
          /\ groups[Origin(ret'.identifier)] = NoneR
          /\ groups' = groups]_vars

\* C3 witness: c2 is TRUE, d1 of the other origin is resolved, and c1 has just
\* been resolved FALSE without a draw
MassExhaustionWitness ==
    /\ model = "choice" /\ pc = "ground"
    /\ DOMAIN facts = {<<1, 0, 1>>, <<1, 0, 2>>, <<1, 1, 1>>}
    /\ facts[<<1, 0, 2>>] = 0 /\ facts[<<1, 0, 1>>] = None
    /\ ret.op = "addAtom" /\ ret.identifier = <<1, 0, 1>> /\ ~ret.drew
    /\ groups[<<1, 0>>] = NoneR

\* the sum of the probabilities of a set of alternatives
RECURSIVE Mass(_)
Mass(S) ==
    IF S = {} THEN Zero
    ELSE LET a == CHOOSE x \in S : TRUE
         IN  RSub(Mass(S \ {a}), RSub(Zero, P(a)))

\* C4: when an unresolved Boolean alternative with probability p is resolved
\* for an uncommitted origin, it is drawn against q = p / r, where r is 1 minus
\* the sum of the probabilities of the alternatives of that origin already
\* rejected (FALSE) in this round.
Renormalization ==
    [][(/\ AddAtomCall
        /\ IsChoice(ret'.identifier) /\ IsBoolean(ret'.identifier)
        /\ ret'.identifier \notin DOMAIN facts
        /\ Alternatives(facts, Origin(ret'.identifier), 0) = {})
       => LET r == RSub(One, Mass(Alternatives(facts, Origin(ret'.identifier), None)))
          IN  /\ ret'.drew
              /\ ret'.q = RDiv(P(ret'.identifier), r)]_vars

\* C4 witness: c1 (p = 0.3) was rejected and c2 (p = 0.2) has just been drawn
\* against q = 0.2 / 0.7 = 2/7 and came out TRUE
RenormalizationWitness ==
    /\ model = "choice" /\ pc = "ground"
    /\ <<1, 0, 1>> \in DOMAIN facts /\ facts[<<1, 0, 1>>] = None
    /\ ret.op = "addAtom" /\ ret.identifier = <<1, 0, 2>> /\ ret.drew
    /\ ret.q = <<2, 7>> /\ ret.result = 0

\* an operand is live when it is neither None nor 0
LiveOperands(content) == {k \in DOMAIN content : content[k] # None /\ content[k] # 0}

\* C5: addAnd and addOr raise the ValueError of a modeling conflict exactly
\* when more than one operand is live; otherwise they return what the
\* LogicFormula combinator returns.  Either way facts, groups, values and
\* probability are unchanged.
CombinatorConflict ==
    [][CombinatorCall =>
        /\ UNCHANGED <<facts, groups, probability, values>>
        /\ (ret'.error # <<>>) <=> (Cardinality(LiveOperands(ret'.content)) > 1)
        /\ ret'.error # <<>> => ret'.error[1] = "ValueError" /\ pc' = "raised"
        /\ ret'.error = <<>> =>
              /\ pc' = "ground"
              /\ ret'.result = IF ret'.op = "addAnd" THEN LogicFormulaAnd(ret'.content)
                                                     ELSE LogicFormulaOr(ret'.content)]_vars

\* C5 witness: addAnd was handed two value-bearing nodes and raised
CombinatorConflictWitness ==
    /\ pc = "raised" /\ ret.op = "addAnd" /\ ret.content = <<1, 2>>
    /\ error # <<>> /\ error[1] = "ValueError"
    /\ Len(values) = 2

(***************************************************************************)
(* Properties of the drivers.                                              *)
(***************************************************************************)
\* the grounder resolves an atom it has not resolved yet
GroundProgress == GroundAtom /\ facts' # facts

\* a step of the running program: the grounder resolves what it still needs
\* or returns, a driver executes its next statement, the caller of sample asks
\* for the next world
Run ==
    \/ GroundProgress
    \/ GroundEnd
    \/ SampleWhile
    \/ SampleEvidence
    \/ SampleResume
    \/ EstimateWhile
    \/ EstimateEvidence
    \/ EstimateQuery
    \/ EstimateCount
    \/ EstimateReturn

\* the drivers on the programs with one evidence atom that every round
\* resolves the same way
InitFair ==
    /\ Init
    /\ model \in {"never", "always"}
    /\ ~tuples
    /\ kwdargs = NoKwdArgs

\* the program keeps running; an interrupt is never forced
FairSpec == InitFair /\ [][Next]_vars /\ WF_vars(Run)

\* some evidence atom of the finished store is absent
EvidenceAbsent == \E e \in Range(Programs[model].evidence) : facts[e] = None

\* C6: in sample, a world is yielded only by a round whose evidence atoms are
\* all non-None; a round with an absent evidence node yields nothing and leaves
\* the counter i alone; i counts the worlds yielded (it is advanced when the
\* generator resumes after the yield), and the driver is done after exactly n
\* yields and never yields more than n.
EvidenceRejection ==
    /\ [](fn = "sample" =>
            /\ yielded = i + (IF pc = "yield" THEN 1 ELSE 0)
            /\ yielded <= n
            /\ pc = "done" => (yielded = n /\ i = n)
            /\ pc = "yield" => (~EvidenceAbsent /\ out # NoOut))
    /\ [][(fn = "sample" /\ pc = "evidence" /\ EvidenceAbsent) =>
            (yielded' = yielded /\ i' = i /\ out' = out /\ pc' = "while")]_vars
    /\ [][(fn = "sample" /\ yielded' # yielded) =>
            (yielded' = yielded + 1 /\ pc = "evidence" /\ ~EvidenceAbsent)]_vars

\* C6 witness: sample with n = 1 is done after one rejected and one accepted round
EvidenceRejectionWitness ==
    /\ fn = "sample" /\ model = "fact" /\ n = 1
    /\ pc = "done" /\ rounds = 2 /\ yielded = 1 /\ i = 1

\* C7: while no round has satisfied the evidence, sample with n >= 1 has
\* yielded nothing and is not done, and estimate with n >= 1 is past its loop
\* only after an interrupt; a program whose evidence atom is FALSE in every
\* round never has a satisfying round and its driver keeps starting rounds;
\* a program whose rounds all satisfy the evidence lets sample finish after
\* exactly n rounds.
UnsatisfiableEvidence ==
    /\ [](model = "never" => okrounds = 0)
    /\ []((fn = "sample" /\ n >= 1 /\ okrounds = 0) => (yielded = 0 /\ pc # "done"))
    /\ []((fn = "estimate" /\ n >= 1 /\ okrounds = 0 /\ pc \in {"print", "returned"})
            => interrupted # "")
    /\ (model = "never" /\ n >= 1) ~> (rounds = MaxRounds \/ interrupted # "")
    /\ []((model = "always" /\ fn = "sample") =>
            okrounds = rounds - (IF pc \in {"ground", "evidence"} THEN 1 ELSE 0))
    /\ (model = "always" /\ fn = "sample" /\ n <= MaxRounds)
          ~> (pc = "done" /\ rounds = n /\ yielded = n)

\* C7 witness: sample with n = 1 on the program whose evidence is never
\* satisfied is back at its loop test after MaxRounds rejected rounds
UnsatisfiableEvidenceWitness ==
    /\ model = "never" /\ fn = "sample" /\ n = 1
    /\ pc = "while" /\ rounds = MaxRounds /\ yielded = 0 /\ i = 0 /\ ~evidence_ok

QueryNames == {Programs[model].names[a] : a \in Range(Programs[model].queries)}

InUnit(x) == RLe(Zero, x) /\ RLe(x, One)

\* C8: without an interrupt and with n >= 1, estimate returns after exactly n
\* accepted rounds, and reports for a query the number of accepted rounds in
\* which it sat at node 0 divided by n (queries never at node 0 are not in the
\* mapping); every reported estimate lies in [0, 1].
FrequencyEstimate ==
    (fn = "estimate" /\ n >= 1 /\ interrupted = "" /\ pc = "returned") =>
        /\ counts = n /\ okrounds = n
        /\ out.estimates = estimates
        /\ DOMAIN estimates = {k \in QueryNames : truerounds[k] > 0}
        /\ \A k \in DOMAIN estimates :
              estimates[k] = Rat(truerounds[k], n) /\ InUnit(estimates[k])

\* C8 witness: estimate with n = 2 returns 1/2 for the query a
FrequencyEstimateWitness ==
    /\ fn = "estimate" /\ model = "fact" /\ n = 2 /\ interrupted = ""
    /\ pc = "returned" /\ DOMAIN estimates = {"a"} /\ estimates["a"] = <<1, 2>>

\* C9: an interrupt anywhere in estimate's loop makes estimate return without
\* raising; with zero accepted rounds the mapping is empty, and every returned
\* estimate is the query's TRUE-count over the accepted-round count, in [0, 1].
InterruptHandling ==
    (fn = "estimate" /\ interrupted # "" /\ pc \in {"returned", "raised"}) =>
        /\ pc = "returned" /\ error = <<>>
        /\ counts = 0 => estimates = <<>>
        /\ \A k \in DOMAIN estimates :
              estimates[k] = Rat(truerounds[k], counts) /\ InUnit(estimates[k])

\* what the claim has toString render for the query (k, v)
Rendered(k, v, as_evidence) ==
    IF v = 0 THEN {IF as_evidence THEN <<"evidence(", k, ").">> ELSE <<k, ".">>}
    ELSE IF v # None THEN {<<k, " = ", values[v], ".">>}
    ELSE IF as_evidence THEN {<<"evidence(", "\\+", k, ").">>}
    ELSE {}

\* the same, with a value-bearing query rendering nothing under as_evidence
RenderedAmended(k, v, as_evidence) ==
    IF v # None /\ v # 0 /\ as_evidence THEN {} ELSE Rendered(k, v, as_evidence)

IsProbabilityLine(line) == line[1] = "% Probability: "

\* the lines of out but for the trailing probability line
Body ==
    IF kwdargs.with_probability THEN SubSeq(out.lines, 1, Len(out.lines) - 1) ELSE out.lines

\* no duplicate lines, and only with with_probability a probability line, last
WellFormed ==
    /\ \A j, k \in DOMAIN Body : j # k => Body[j] # Body[k]
    /\ \A j \in DOMAIN Body : ~IsProbabilityLine(Body[j])
    /\ kwdargs.with_probability =>
          (out.lines # <<>> /\ out.lines[Len(out.lines)] = <<"% Probability: ", probability>>)

FactsBase == IF kwdargs.as_evidence THEN <<"evidence(", "%s", ").">> ELSE <<"%s", ".">>

\* C10 as stated: a value-bearing query renders Atom = V. in every mode.
Serialization ==
    (fn = "sample" /\ ~tuples /\ pc = "yield") =>
        /\ WellFormed
        /\ LET qs == queries(model, facts)
               want == UNION {Rendered(qs[j][1], qs[j][2], kwdargs.as_evidence) : j \in DOMAIN qs}
           IN  /\ want \subseteq Range(Body)
               /\ Range(Body) \subseteq
                     want \cup (IF kwdargs.with_facts THEN FactLines(model, facts, FactsBase) ELSE {})

\* C10, amended: toString renders for each query exactly: Atom. (evidence(Atom).
\* under as_evidence) for a TRUE node; Atom = V. for a value-bearing node, but
\* nothing under as_evidence; nothing for a FALSE node, but evidence(\+Atom).
\* under as_evidence.  The only other lines are those of the facts under
\* with_facts.  No line occurs twice, and with with_probability exactly one
\* probability line comes last.
SerializationAmended ==
    (fn = "sample" /\ ~tuples /\ pc = "yield") =>
        /\ WellFormed
        /\ LET qs == queries(model, facts)
               want == UNION {RenderedAmended(qs[j][1], qs[j][2], kwdargs.as_evidence) : j \in DOMAIN qs}
           IN  /\ want \subseteq Range(Body)
               /\ Range(Body) \subseteq
                     want \cup (IF kwdargs.with_facts THEN FactLines(model, facts, FactsBase) ELSE {})

\* C10 witness: under as_evidence, with_facts and with_probability the TRUE
\* query a and the fact a give one line, the value-bearing queries x and y
\* give none, and the probability line comes last
SerializationWitness ==
    /\ fn = "sample" /\ ~tuples /\ pc = "yield" /\ model = "valued"
    /\ kwdargs = KwdArgs(TRUE, TRUE, TRUE, TRUE)
    /\ Len(values) = 2
    /\ out.lines = <<<<"evidence(", "a", ").">>, <<"% Probability: ", Zero>>>>

\* C11: every round starts from a fresh store (no cached fact, no group, no
\* value, probability 1.0), and the first addAtom of a round for a plain
\* Boolean fact of probability p consumes one draw u, returns TRUE iff u < p
\* and multiplies probability by p when TRUE and by 1 - p when FALSE.
PlainFactDraw ==
    [][/\ rounds' # rounds =>
             /\ rounds' = rounds + 1
             /\ facts' = <<>> /\ groups' = <<>> /\ values' = <<>> /\ probability' = One
       /\ (/\ AddAtomCall
           /\ ~IsChoice(ret'.identifier) /\ IsBoolean(ret'.identifier)
           /\ ret'.identifier \notin DOMAIN facts)
          => /\ ret'.error = <<>> /\ ret'.drew /\ ret'.u \in Random
             /\ ret'.result = (IF RLt(ret'.u, P(ret'.identifier)) THEN 0 ELSE None)
             /\ facts' = (ret'.identifier :> ret'.result) @@ facts
             /\ probability' =
                   RMul(probability, IF ret'.result = 0 THEN P(ret'.identifier)
                                     ELSE RSub(One, P(ret'.identifier)))]_vars

\* C11 witness: with p = 0.4 the first round was accepted with a TRUE (it is
\* counted in estimates), and in the second round the draw 0.5 has just made
\* a FALSE with probability 0.6
PlainFactDrawWitness ==
    /\ model = "fact" /\ fn = "estimate" /\ rounds = 2 /\ pc = "ground"
    /\ "a" \in DOMAIN estimates /\ estimates["a"] = One
    /\ ret.op = "addAtom" /\ ret.identifier = <<1>> /\ ret.u = <<1, 2>>
    /\ facts = (<<1>> :> None)
    /\ probability = <<3, 5>>

\* the distributions sample_value knows
Supported == {"normal", "poisson", "exponential", "beta", "gamma", "uniform", "constant"}

Functor(identifier) == Programs[model].atoms[identifier].functor

\* C12: addAtom for a non-cached atom, plain or choice alternative, whose
\* probability is a descriptor with an unknown functor raises the error that
\* names the functor and leaves facts, groups, values and probability as they
\* were; the error leaves sample and estimate, which run no further round.
UnsupportedDistribution ==
    [][/\ (/\ AddAtomCall
           /\ ret'.identifier \notin DOMAIN facts
           /\ Functor(ret'.identifier) \notin Supported \cup {"float", "None"})
          => /\ ret'.error = <<"ValueError", "Unknown distribution: '%s'",
                               Functor(ret'.identifier)>>
             /\ UNCHANGED <<facts, groups, values, probability>>
             /\ pc' = "raised" /\ error' = ret'.error
             /\ UNCHANGED <<rounds, yielded, i, counts, estimates, out>>
       /\ pc = "raised" => UNCHANGED vars]_vars

\* C12 witness: in the second round of estimate, after two atoms were
\* resolved, the choice alternative w of functor bar made addAtom raise, and
\* the error left the driver
UnsupportedDistributionWitness ==
    /\ model = "valued" /\ fn = "estimate" /\ rounds = 2 /\ pc = "raised"
    /\ ret.op = "addAtom" /\ ret.identifier = <<2, 0, 1>>
    /\ error = <<"ValueError", "Unknown distribution: '%s'", "bar">>
    /\ Cardinality(DOMAIN facts) = 2 /\ Len(values) = 1 /\ groups = <<>>

\* the number of leading draws whose running product, from p on, is above l2
RECURSIVE Leading(_, _, _)
Leading(draws, p, l2) ==
    IF draws = <<>> THEN 0
    ELSE IF RLt(l2, RMul(p, Head(draws)))
         THEN 1 + Leading(Tail(draws), RMul(p, Head(draws)), l2)
         ELSE 0

\* C19: for a rate below 30, sample_poisson returns the number of leading
\* draws whose running product is still above e^-lambda, that is the number
\* of draws consumed minus one, and 0 when the first draw is already at or
\* below e^-lambda.
PoissonKnuth ==
    poisson.pc = "returned" =>
        /\ poisson.result = Leading(poisson.draws, One, poisson.l2)
        /\ poisson.result = Len(poisson.draws) - 1
        /\ (poisson.draws # <<>> /\ RLe(poisson.draws[1], poisson.l2)) => poisson.result = 0

\* a step in which the caller called computeProbability
ComputeCall == ret'.op = "computeProbability" /\ finalized' = finalized + 1

\* C13 as stated: a second computeProbability with no addAtom in between
\* multiplies the leftover mass in again, so that probability changes whenever
\* the first call found a leftover mass strictly between 0 and 1 (and
\* probability is not 0).
DoubleCounting ==
    [][(/\ ComputeCall /\ finalized = 1
        /\ ret.op = "computeProbability"
        /\ RLt(Zero, ret.q) /\ RLt(ret.q, One)
        /\ probability # Zero)
       => /\ probability' = RMul(probability, ret.q)
          /\ probability' # probability]_vars

\* C13, amended: the first computeProbability multiplies probability by the
\* leftover mass of every uncommitted origin and empties groups; a later call
\* with no addAtom in between finds groups empty and leaves probability,
\* groups, facts and values as they are.
ComputeOnce ==
    [][ComputeCall =>
        /\ groups' = <<>>
        /\ UNCHANGED <<facts, values>>
        /\ finalized = 0 => /\ probability' = RMul(probability, Leftover(groups, DOMAIN groups))
                            /\ ret'.q = Leftover(groups, DOMAIN groups)
        /\ finalized >= 1 => /\ groups = <<>>
                             /\ ret'.q = One
                             /\ probability' = probability]_vars

\* C13 witness: z2 of probability 0.5 came out FALSE, the first call
\* multiplied the leftover 0.5 in, and after the second call probability is
\* still 0.5
ComputeOnceWitness ==
    /\ model = "zero" /\ finalized = 2
    /\ facts = (<<2, 0, 2>> :> None)
    /\ ret.op = "computeProbability" /\ ret.q = One
    /\ probability = <<1, 2>> /\ groups = <<>>

\* C14: when toString or toTuples has returned (the driver is about to yield
\* its result), computeProbability has run exactly once on the store: groups
\* is empty and probability is the product of the resolution factors times
\* the leftover mass of every uncommitted origin (for the program choice: one
\* factor per origin, the probability of its TRUE alternative or else 1 minus
\* the probabilities of its alternatives, all FALSE).
FinalizedOnce ==
    (fn = "sample" /\ pc = "yield") =>
        /\ finalized = 1
        /\ groups = <<>>
        /\ model = "choice" =>
              probability =
                  RMul(IF facts[<<1, 0, 1>>] = 0 THEN P(<<1, 0, 1>>)
                       ELSE IF facts[<<1, 0, 2>>] = 0 THEN P(<<1, 0, 2>>)
                       ELSE RSub(RSub(One, P(<<1, 0, 1>>)), P(<<1, 0, 2>>)),
                       IF <<1, 1, 1>> \notin DOMAIN facts THEN One
                       ELSE IF facts[<<1, 1, 1>>] = 0 THEN P(<<1, 1, 1>>)
                       ELSE RSub(One, P(<<1, 1, 1>>)))

\* the factor an origin contributes for the outcome cached in facts: the
\* probability of its TRUE alternative, or else 1 minus the probabilities of
\* its visited alternatives
GroupFactor(origin) ==
    LET T == Alternatives(facts, origin, 0)
    IN  IF T # {} THEN P(CHOOSE a \in T : TRUE)
        ELSE RSub(One, Mass(Alternatives(facts, origin, None)))

RECURSIVE GroupFactors(_)
GroupFactors(S) ==
    IF S = {} THEN One
    ELSE LET origin == CHOOSE x \in S : TRUE
         IN  RMul(GroupFactor(origin), GroupFactors(S \ {origin}))

\* C15: after finalization the probability of a store that holds only Boolean
\* alternatives (of groups summing to at most 1.0) is the product over the
\* origins of a factor that depends on the cached outcome alone, not on the
\* order of the addAtom calls: p_i when alternative i is TRUE, 1 minus the sum
\* of the visited alternatives when none is.
OrderIndependence ==
    (model \in {"choice", "exhaust"} /\ finalized >= 1) =>
        /\ Cardinality(Alternatives(facts, <<1, 0>>, 0)) <= 1
        /\ probability = GroupFactors(Origins)

\* C15 witness: h2 was visited before h1 and came out FALSE, h1 came out TRUE,
\* and the finalized probability is that of h1
OrderIndependenceWitness ==
    /\ model = "exhaust" /\ finalized = 1
    /\ DOMAIN facts = {<<1, 0, 1>>, <<1, 0, 2>>, <<1, 0, 3>>}
    /\ facts[<<1, 0, 1>>] = 0 /\ facts[<<1, 0, 2>>] = None /\ facts[<<1, 0, 3>>] = None
    /\ probability = <<9999, 10000>>

\* addAtom is about to resolve a Boolean alternative of an uncommitted origin
\* whose remaining mass is r
Uncommitted(r) ==
    /\ AddAtomCall
    /\ IsChoice(ret'.identifier) /\ IsBoolean(ret'.identifier)
    /\ ret'.identifier \notin DOMAIN facts
    /\ Origin(ret'.identifier) \in DOMAIN groups
    /\ groups[Origin(ret'.identifier)] = r

\* the remaining masses that occur
Masses == {groups[o] : o \in DOMAIN groups} \ {NoneR}

\* C16 as stated: with a remaining mass r <= 1e-8, exactly 1e-8 included, the
\* alternative is forced FALSE without a draw and without an error,
\* probability is unchanged, and so is the mass the origin contributes at
\* finalization.
ExhaustedThreshold ==
    [][\A r \in Masses : (Uncommitted(r) /\ RLe(r, EPS)) =>
          /\ ret'.result = None /\ ~ret'.drew /\ ret'.error = <<>>
          /\ probability' = probability
          /\ groups' = groups]_vars

\* C16, amended: with a remaining mass r < 1e-8 the alternative is forced
\* FALSE without a draw and without an error and probability is unchanged,
\* but the remaining mass still goes down by p; with r exactly 1e-8 the
\* alternative is drawn against p / r.
ExhaustedBelowThreshold ==
    [][\A r \in Masses :
          /\ (Uncommitted(r) /\ RLt(r, EPS)) =>
                /\ ret'.result = None /\ ~ret'.drew /\ ret'.error = <<>>
                /\ facts' = (ret'.identifier :> None) @@ facts
                /\ probability' = probability
                /\ groups' = (Origin(ret'.identifier) :> RSub(r, P(ret'.identifier))) @@ groups
          /\ (Uncommitted(r) /\ r = EPS) =>
                /\ ret'.drew /\ ret'.q = RDiv(P(ret'.identifier), r)
                /\ ret'.result = (IF RLe(ret'.u, ret'.q) THEN 0 ELSE None)]_vars

\* C16 witness: h1, h2 and h3 were rejected, which left 9e-9, and h4 has just
\* been forced FALSE without a draw; the remaining mass went down to 0
ExhaustedBelowThresholdWitness ==
    /\ model = "exhaust" /\ pc = "ground"
    /\ ret.op = "addAtom" /\ ret.identifier = <<1, 0, 4>> /\ ~ret.drew /\ ret.result = None
    /\ \A a \in Atoms(model) : a \in DOMAIN facts /\ facts[a] = None
    /\ groups[<<1, 0>>] = Zero
    /\ probability = One

\* every Boolean probability of the program is in [0, 1] and the Boolean
\* alternatives of every origin sum to at most 1.0
UnitProgram ==
    /\ \A a \in Atoms(model) : IsBoolean(a) => InUnit(P(a))
    /\ \A origin \in Origins :
          RLe(Mass({a \in Atoms(model) : IsChoice(a) /\ Origin(a) = origin /\ IsBoolean(a)}),
              One)

\* C17: for such a program, a store starts with probability 1.0 and no group,
\* and whatever addAtom and computeProbability calls follow, every entry of
\* groups is None or a mass in [0, 1], probability stays in [0, 1] and no
\* call increases it.
BookkeepingBounds ==
    /\ UnitProgram => (probability = One /\ groups = <<>>)
    /\ [][UnitProgram =>
            /\ \A o \in DOMAIN groups' : groups'[o] = NoneR \/ InUnit(groups'[o])
            /\ InUnit(probability')
            /\ RLe(probability', probability)]_vars

\* C17 witness: in the program choice both c1 and c2 were rejected and d1
\* came out TRUE; the leftover 0.5 and the 0.5 of d1 brought probability down
\* to 0.25 at finalization
BookkeepingBoundsWitness ==
    /\ model = "choice" /\ finalized = 1
    /\ facts = (<<1, 0, 1>> :> None) @@ (<<1, 0, 2>> :> None) @@ (<<1, 1, 1>> :> 0)
    /\ ret.op = "computeProbability" /\ ret.q = <<1, 2>>
    /\ probability = <<1, 4>>

\* C18: the first addAtom for an atom whose probability is a supported
\* distribution appends exactly one value to values and leaves the earlier
\* ones, returns its 1-based index n, for which getValue gives that value
\* (getValue(0) gives None), multiplies probability by the weight of the
\* sampler, 1.0 for constant(v), whose value is v, and 0.0 for the others,
\* and leaves groups alone.
DistributionAtoms ==
    [][(/\ AddAtomCall
        /\ ret'.identifier \notin DOMAIN facts
        /\ Functor(ret'.identifier) \in Supported)
       => /\ ret'.error = <<>>
          /\ Len(values') = Len(values) + 1
          /\ SubSeq(values', 1, Len(values)) = values
          /\ ret'.result = Len(values')
          /\ facts' = (ret'.identifier :> ret'.result) @@ facts
          /\ getValue(values', ret'.result) = values'[Len(values')]
          /\ getValue(values', 0) = NoneR
          /\ Functor(ret'.identifier) = "constant" =>
                getValue(values', ret'.result) = Programs[model].atoms[ret'.identifier].args[1]
          /\ probability' = RMul(probability, IF Functor(ret'.identifier) = "constant"
                                               THEN One ELSE Zero)
          /\ groups' = groups]_vars

\* C20: a Boolean draw u makes a plain fact and a choice alternative TRUE by
\* the same rule, u strictly below the probability drawn against, so that a
\* probability of 0.0 never comes out TRUE and never commits its origin.
BoundaryAgreement ==
    [][(/\ AddAtomCall
        /\ IsBoolean(ret'.identifier)
        /\ ret'.identifier \notin DOMAIN facts
        /\ ret'.drew)
       => /\ ret'.result =
                (IF RLt(ret'.u, IF IsChoice(ret'.identifier) THEN ret'.q
                                ELSE P(ret'.identifier))
                 THEN 0 ELSE None)
          /\ P(ret'.identifier) = Zero =>
                /\ ret'.result = None
                /\ IsChoice(ret'.identifier) => groups'[Origin(ret'.identifier)] # NoneR]_vars

====
